---- MODULE Spec2Model ----
(***************************************************************************)
(* The session-to-repository publication pipeline of mouseTube:            *)
(*   tasks.py         process_file, delete_file_from_repository,           *)
(*                    publish_session_deposition, extract_metadata         *)
(*   utils/zenodo.py  prepare_deposition_for_session, delete_file,         *)
(*                    publish_deposition                                   *)
(*   utils/repository.py    dispatch of a Repository row to its handler    *)
(*   utils/file_handler.py  link_to_local_path                             *)
(* One recording session, its files, the entities it references, the local *)
(* disk and the remote repository.  Every task run is one action; what the *)
(* remote repository answers to each request is an input of the action.    *)
(***************************************************************************)
EXTENDS Integers, Sequences, FiniteSets, TLC

\* ------------------------------------------------------------------ bounds
NumFiles == 2
MaxDepositions == 2
MaxSegments == 2

\* --------------------------------------------------------------- constants
\* None, kept apart from the number 0 a numeric field may hold.
NULL == -1
FileIds == 1..NumFiles
DepositionIds == 1..MaxDepositions
SessionId == 1
\* Repository rows: the default row of process_file (id 1) is the Zenodo row,
\* row 2 is a repository for which utils/ holds no handler module, row 3 one
\* whose name is that of a module of utils/ without any handler operation.
ZenodoRepositoryId == 1
OtherRepositoryId == 2
BareRepositoryId == 3
RepositoryIds == {ZenodoRepositoryId, OtherRepositoryId, BareRepositoryId}

RepositoryName(r) ==
    CASE r = ZenodoRepositoryId -> "Zenodo"
      [] r = BareRepositoryId -> " Validators"
      [] OTHER -> "Dryad"

\* File.doi: NULL, the empty string (the serializer's validate_doi lets a
\* blank value through), a DOI that was not minted by this pipeline, and the
\* DOI the remote mints when it publishes deposition d.
EmptyDoi == 1
ForeignDoi == 99
ZenodoDoi(d) == 100 + d

Min(S) == CHOOSE x \in S : \A y \in S : x <= y

RECURSIVE SortedSeq(_)
\* A queryset without an explicit order is read in primary-key order.
SortedSeq(S) == IF S = {} THEN << >> ELSE <<Min(S)>> \o SortedSeq(S \ {Min(S)})

Range(s) == {s[i] : i \in 1..Len(s)}

\* ------------------------------------------------------------------- state
VARIABLES
    file,          \* the File rows
    disk,          \* the local copy each File.link resolves to
    audio,         \* what the local copy contains (never changes)
    rs,            \* the RecordingSession row and its relations
    entity,        \* status of the entities a session may reference
    remote,        \* the remote repository (depositions, their files)
    prepared,      \* <<deposition, trigger>> of the builder calls that returned
                   \* after tagging a file
    task           \* the process_file run in flight for each file, when the
                   \* runs of a session are interleaved

vars == <<file, disk, audio, rs, entity, remote, prepared, task>>

\* ------------------------------------------------- utils/file_handler.py
\* File.link is kept by its shape: "" (empty), "media" (/media/<p> or
\* http(s)://host/media/<p>), "temp" (/temp/<p> or http(s)://host/temp/<p>),
\* "nested" (/media/temp/<p>: under the media root, in a directory named
\* temp), "foreign" (an http(s) URL of another site) and "zenodo" (the link
\* publish_deposition writes, which starts with the repository's base URL).
\* The temp root is a directory named temp, so its paths hold "/temp/".
LinkShapes == {"", "media", "temp", "nested", "foreign", "zenodo"}

link_to_local_path(link) ==
    IF link = ""
    THEN [raises |-> "ValueError", root |-> "none", temp_in_path |-> FALSE]
    ELSE IF link = "media"
    THEN [raises |-> "none", root |-> "media", temp_in_path |-> FALSE]
    ELSE IF link = "temp"
    THEN [raises |-> "none", root |-> "temp", temp_in_path |-> TRUE]
    ELSE IF link = "nested"
    THEN [raises |-> "none", root |-> "media", temp_in_path |-> TRUE]
    ELSE [raises |-> "none", root |-> "path", temp_in_path |-> FALSE]

\* What is found at the path a link resolves to: the roots hold the local
\* copy, the path component of a foreign URL names no local file.
LocalCopy(dk, fl, f) ==
    IF link_to_local_path(fl[f].link).root \in {"media", "temp"}
    THEN dk[f] ELSE "missing"

\* ----------------------------------------------- tasks.py: extract_metadata
AUDIO_EXTENSIONS == {".wav", ".flac", ".aiff", ".aif", ".ogg", ".mp3"}

Lower(e) ==
    CASE e = ".WAV" -> ".wav" [] e = ".FLAC" -> ".flac" [] OTHER -> e

\* ext.lower().lstrip(".").upper()
FormatOf(e) ==
    CASE Lower(e) = ".wav" -> "WAV" [] Lower(e) = ".flac" -> "FLAC"
      [] Lower(e) = ".mp3" -> "MP3" [] OTHER -> "TXT"

bit_depth_map(subtype) ==
    CASE subtype = "PCM_16" -> 16 [] subtype = "PCM_24" -> 24
      [] subtype = "PCM_32" -> 32 [] subtype = "FLOAT" -> 32
      [] subtype = "DOUBLE" -> 64 [] OTHER -> NULL

\* "not value": a number field is empty when it holds None or 0, the format
\* when it holds None or the empty string (both kept as "").
Empty(value) == value \in {NULL, 0}
EmptyText(value) == value = ""

\* An extractor that writes what it reads over the values the row holds.
extract_metadata_Overwrite(rec, au, local) ==
    IF Lower(au.ext) \notin AUDIO_EXTENSIONS
    THEN [rec |-> rec, raises |-> "ValidationError"]
    ELSE IF local # "ok"
    THEN [rec |-> rec, raises |-> "ValidationError"]
    ELSE [rec |->
            [rec EXCEPT
               !.sampling_rate = au.samplerate,
               !.duration = au.frames \div au.samplerate,
               !.bit_depth = bit_depth_map(au.subtype),
               !.format = FormatOf(au.ext)],
          raises |-> "none"]

\* Returns the File row after the call and the exception raised, if any.
extract_metadata(rec, au, local) ==
    IF Lower(au.ext) \notin AUDIO_EXTENSIONS
    THEN [rec |-> rec, raises |-> "ValidationError"]
    ELSE IF local # "ok"
    THEN [rec |-> rec, raises |-> "ValidationError"]
    ELSE [rec |->
            [rec EXCEPT
               !.sampling_rate = IF Empty(@) THEN au.samplerate ELSE @,
               !.duration = IF Empty(@) THEN au.frames \div au.samplerate ELSE @,
               !.bit_depth = IF Empty(@) THEN bit_depth_map(au.subtype) ELSE @,
               !.format = IF EmptyText(@) THEN FormatOf(au.ext) ELSE @],
          raises |-> "none"]

\* ------------------------------------------------ utils/repository.py
\* repository.name.lower().strip()
ModuleName(name) ==
    CASE name = "Zenodo" -> "zenodo" [] name = " Validators" -> "validators"
      [] name = "Dryad" -> "dryad" [] OTHER -> name

\* The modules of utils/ and the handler operations each defines.
UtilsModules ==
    {"adapters", "email_activation", "email_reset", "file_handler",
     "repository", "signals", "swagger_hooks", "validators", "zenodo"}
HandlerOperations(module) ==
    IF module = "zenodo"
    THEN {"build_metadata_payload", "prepare_deposition_for_session",
          "delete_file", "publish_deposition"}
    ELSE {}

\* importlib finds a module of utils/ for the lower-cased repository name.
get_repository_handler(r) ==
    IF ModuleName(RepositoryName(r)) \in UtilsModules
    THEN ModuleName(RepositoryName(r)) ELSE "NotImplementedError"

\* A wrapper that calls what getattr returned without testing it.
Dispatch_Uncallable(r, operation) ==
    IF get_repository_handler(r) = "NotImplementedError"
    THEN "NotImplementedError"
    ELSE IF operation \notin HandlerOperations(get_repository_handler(r))
    THEN "TypeError"
    ELSE "none"

\* The wrappers of utils/repository.py: the exception raised before the
\* handler's operation is called, "none" when it is called.
Dispatch(r, operation) ==
    IF get_repository_handler(r) = "NotImplementedError"
    THEN "NotImplementedError"
    ELSE IF operation \notin HandlerOperations(get_repository_handler(r))
    THEN "NotImplementedError"
    ELSE "none"

\* build_repository_metadata_payload: the exception raised, "none" when the
\* handler builds the payload.
build_repository_metadata_payload(r) == Dispatch(r, "build_metadata_payload")

\* ----------------------------------------------------- the remote repository
IsDraft(rm, d) == d \in 1..rm.drafts /\ d \notin rm.published

\* ---------------------------- utils/zenodo.py: prepare_deposition_for_session
SessionFiles(fl, s) ==
    {f \in FileIds : fl[f].exists /\ fl[f].recording_session = s}

EligibleFiles(fl, s) ==
    {f \in SessionFiles(fl, s) :
        /\ fl[f].status \notin {"pending", "processing", "error"}
        /\ fl[f].doi = NULL}

WorkingList(fl, s, new_file) ==
    IF new_file # NULL /\ new_file \notin EligibleFiles(fl, s)
    THEN SortedSeq(EligibleFiles(fl, s)) \o <<new_file>>
    ELSE SortedSeq(EligibleFiles(fl, s))

\* next((f for f in files if f.repository and f.external_id), None)
ExistingFile(fl, files) ==
    LET tagged == {i \in 1..Len(files) :
                     fl[files[i]].repository # NULL /\ fl[files[i]].external_id # NULL}
    IN IF tagged = {} THEN NULL ELSE files[Min(tagged)]

\* The upload loop abandoning the whole batch at a file that is not on disk.
UploadFile_AbortOnMissing(st, dk, f, deposition_id, repo, o) ==
    IF st.file[f].external_id = deposition_id THEN st
    ELSE IF link_to_local_path(st.file[f].link).raises # "none"
    THEN [st EXCEPT !.raises = "ValueError"]
    ELSE IF LocalCopy(dk, st.file, f) \in {"missing", "empty"}
    THEN [st EXCEPT !.raises = "FileNotFoundError"]
    ELSE IF f \in o.upload_fail \/ ~IsDraft(st.remote, deposition_id)
    THEN [st EXCEPT !.file[f].status = "error",
                    !.errored = @ \cup {f},
                    !.upload_failed = @ \cup {f}]
    ELSE [st EXCEPT !.file[f].repository = repo,
                    !.file[f].external_id = deposition_id,
                    !.remote.files = @ \cup {<<deposition_id, f>>},
                    !.uploaded = @ \cup {f}]

\* The upload loop tagging a file with the newest draft of the remote instead
\* of the deposition the call works on.
UploadFile_TagNewestDraft(st, dk, f, deposition_id, repo, o) ==
    IF st.file[f].external_id = deposition_id THEN st
    ELSE IF link_to_local_path(st.file[f].link).raises # "none"
    THEN [st EXCEPT !.raises = "ValueError"]
    ELSE IF LocalCopy(dk, st.file, f) \in {"missing", "empty"}
    THEN [st EXCEPT !.file[f].status = "error",
                    !.errored = @ \cup {f},
                    !.skipped = @ \cup {f}]
    ELSE IF f \in o.upload_fail \/ ~IsDraft(st.remote, deposition_id)
    THEN [st EXCEPT !.file[f].status = "error",
                    !.errored = @ \cup {f},
                    !.upload_failed = @ \cup {f}]
    ELSE [st EXCEPT !.file[f].repository = repo,
                    !.file[f].external_id = st.remote.drafts,
                    !.remote.files = @ \cup {<<deposition_id, f>>},
                    !.uploaded = @ \cup {f}]

\* Lines 324-356, one turn of the loop: a file already tagged with the
\* deposition is passed over, one that is not on disk (or is empty) is marked
\* "error", one the remote refuses is marked "error", any other is tagged.
UploadFile(st, dk, f, deposition_id, repo, o) ==
    IF st.file[f].external_id = deposition_id THEN st
    ELSE IF link_to_local_path(st.file[f].link).raises # "none"
    THEN [st EXCEPT !.raises = "ValueError"]
    ELSE IF LocalCopy(dk, st.file, f) \in {"missing", "empty"}
    THEN [st EXCEPT !.file[f].status = "error",
                    !.errored = @ \cup {f},
                    !.skipped = @ \cup {f}]
    ELSE IF f \in o.upload_fail \/ ~IsDraft(st.remote, deposition_id)
    THEN [st EXCEPT !.file[f].status = "error",
                    !.errored = @ \cup {f},
                    !.upload_failed = @ \cup {f}]
    ELSE [st EXCEPT !.file[f].repository = repo,
                    !.file[f].external_id = deposition_id,
                    !.remote.files = @ \cup {<<deposition_id, f>>},
                    !.uploaded = @ \cup {f}]

RECURSIVE UploadLoop(_, _, _, _, _, _, _)
\* The upload loop over files[i..]; st carries the rows, the remote and what
\* the loop did so far.
UploadLoop(st, dk, files, i, deposition_id, repo, o) ==
    IF i > Len(files) \/ st.raises # "none" THEN st
    ELSE UploadLoop(UploadFile(st, dk, files[i], deposition_id, repo, o),
                    dk, files, i + 1, deposition_id, repo, o)

\* Lines 359-362: the local copies whose path holds "/temp/" are removed.
RemoveTemp(dk, fl, files) ==
    [f \in FileIds |->
        IF f \in Range(files) /\ link_to_local_path(fl[f].link).temp_in_path
           /\ dk[f] # "missing"
        THEN "missing" ELSE dk[f]]

BuilderResult(fl, dk, rm) ==
    [file |-> fl, disk |-> dk, remote |-> rm, raises |-> "none",
     deposition_id |-> NULL, deposition |-> NULL, files |-> << >>,
     create_sent |-> FALSE, put_sent |-> FALSE, uploaded |-> {},
     upload_failed |-> {}, errored |-> {}, skipped |-> {}]

\* Lines 359-376: the temp copies are removed, then the metadata is PUT; the
\* deposition id is returned only when the PUT is accepted.
DescribeDeposition(looped, dk, files, deposition_id, o) ==
    IF looped.raises # "none" THEN looped
    ELSE IF ~(o.put /\ IsDraft(looped.remote, deposition_id))
    THEN [looped EXCEPT !.disk = RemoveTemp(dk, looped.file, files),
                        !.put_sent = TRUE, !.raises = "HTTPError"]
    ELSE [looped EXCEPT !.disk = RemoveTemp(dk, looped.file, files),
                        !.put_sent = TRUE, !.deposition_id = deposition_id]

\* Lines 302-356: the deposition of existing_file is reused, or a draft is
\* created; then every file of the list is uploaded.
UploadToDeposition(fl, dk, rm, files, existing_file, o) ==
    LET deposition_id == IF existing_file # NULL THEN fl[existing_file].external_id
                         ELSE rm.drafts + 1
        repo == IF existing_file # NULL THEN fl[existing_file].repository
                ELSE ZenodoRepositoryId
        rm1 == IF existing_file # NULL THEN rm ELSE [rm EXCEPT !.drafts = @ + 1]
    IN IF existing_file = NULL /\ ~(o.create /\ rm.drafts < MaxDepositions)
       THEN [BuilderResult(fl, dk, rm) EXCEPT
                !.files = files, !.create_sent = TRUE, !.raises = "HTTPError"]
       ELSE DescribeDeposition(
              UploadLoop([BuilderResult(fl, dk, rm1) EXCEPT
                             !.files = files,
                             !.deposition = deposition_id,
                             !.create_sent = (existing_file = NULL)],
                         dk, files, 1, deposition_id, repo, o),
              dk, files, deposition_id, o)

\* Lines 295-302: no file to deposit is a ValueError.
BuildDeposition(fl, dk, rm, files, o) ==
    IF files = << >>
    THEN [BuilderResult(fl, dk, rm) EXCEPT !.raises = "ValueError"]
    ELSE UploadToDeposition(fl, dk, rm, files, ExistingFile(fl, files), o)

prepare_deposition_for_session(fl, dk, rm, recording_session, new_file, o) ==
    BuildDeposition(fl, dk, rm, WorkingList(fl, recording_session, new_file), o)

\* ------------------------------------------------------ what a task run did
NoRun ==
    [op |-> "none", file |-> NULL, repository |-> NULL, entered |-> FALSE,
     raises |-> "none", writes |-> << >>, builder_ran |-> FALSE,
     deposition_id |-> NULL, deposition |-> NULL, files |-> << >>,
     create_sent |-> FALSE, put_sent |-> FALSE, uploaded |-> {},
     upload_failed |-> {}, errored |-> {}, skipped |-> {},
     delete_sent |-> FALSE,
     publish_sent |-> FALSE, published |-> NULL, doi |-> NULL]

\* ---------------------------------------------------- tasks.py: process_file
\* What remains of the body once status "processing" is saved: the rows, the
\* disk, the remote and the exception, before the final status write.
DepositBody(extracted, fl, dk, rm, f, repository, o) ==
    IF extracted.raises # "none"
    THEN [BuilderResult(fl, dk, rm) EXCEPT !.raises = extracted.raises]
    ELSE IF fl[f].recording_session = NULL
    THEN [BuilderResult([fl EXCEPT ![f] = extracted.rec], dk, rm) EXCEPT
             !.raises = "ValueError"]
    ELSE IF Dispatch(repository, "prepare_deposition_for_session") # "none"
    THEN [BuilderResult([fl EXCEPT ![f] = extracted.rec], dk, rm) EXCEPT
             !.raises = Dispatch(repository, "prepare_deposition_for_session")]
    ELSE prepare_deposition_for_session([fl EXCEPT ![f] = extracted.rec], dk, rm,
                                        fl[f].recording_session, f, o)

ProcessBody(fl, dk, au, rm, f, repository, o) ==
    IF link_to_local_path(fl[f].link).raises # "none"
    THEN [BuilderResult(fl, dk, rm) EXCEPT
             !.raises = link_to_local_path(fl[f].link).raises]
    ELSE DepositBody(extract_metadata(fl[f], au[f], LocalCopy(dk, fl, f)),
                     fl, dk, rm, f, repository, o)

\* An exception handler that re-raises without saving the status.
FinalStatus_NoErrorWrite(raises) ==
    IF raises = "none" THEN "done" ELSE "processing"

\* The status the run leaves: "done" when the body returned, "error" when it
\* raised.
FinalStatus(raises) == IF raises = "none" THEN "done" ELSE "error"

\* Lines 105-114: the final status is saved and the run ends.
ProcessOutcome(body, f, repository) ==
    [file |-> [body.file EXCEPT ![f].status = FinalStatus(body.raises)],
     disk |-> body.disk,
     remote |-> body.remote,
     run |-> [NoRun EXCEPT
         !.op = "process_file", !.file = f, !.repository = repository,
         !.entered = TRUE, !.raises = body.raises,
         !.writes = <<"processing">>
                    \o (IF f \in body.errored THEN <<"error">> ELSE << >>)
                    \o <<FinalStatus(body.raises)>>,
         !.builder_ran = (body.files # << >>),
         !.deposition_id = body.deposition_id,
         !.deposition = body.deposition,
         !.files = body.files,
         !.create_sent = body.create_sent,
         !.put_sent = body.put_sent,
         !.uploaded = body.uploaded,
         !.upload_failed = body.upload_failed,
         !.errored = body.errored,
         !.skipped = body.skipped]]

process_file(fl, dk, au, rm, f, repository_id, o) ==
    LET repository ==
            IF repository_id = NULL /\ fl[f].repository # NULL
            THEN fl[f].repository
            ELSE IF repository_id = NULL THEN ZenodoRepositoryId
            ELSE repository_id
    IN IF ~fl[f].exists
       THEN [file |-> fl, disk |-> dk, remote |-> rm,
             run |-> [NoRun EXCEPT !.op = "process_file", !.file = f,
                                    !.raises = "DoesNotExist"]]
       ELSE ProcessOutcome(
              ProcessBody([fl EXCEPT ![f].status = "processing"],
                          dk, au, rm, f, repository, o),
              f, repository)

\* --------------------------------------------- utils/zenodo.py: delete_file
\* The file the remote lists under the name the link now ends with.
RemoteTarget(fl, rm, f) ==
    <<fl[f].external_id, f>> \in rm.files /\ fl[f].link \in {"media", "temp", "nested"}

delete_file(fl, rm, f, o) ==
    IF fl[f].external_id = NULL
    THEN [remote |-> rm, raises |-> "ValueError", delete_sent |-> FALSE]
    ELSE IF ~o.list
    THEN [remote |-> rm, raises |-> "HTTPError", delete_sent |-> FALSE]
    ELSE IF ~RemoteTarget(fl, rm, f)
    THEN [remote |-> rm, raises |-> "none", delete_sent |-> FALSE]
    ELSE IF ~(o.delete /\ IsDraft(rm, fl[f].external_id))
    THEN [remote |-> rm, raises |-> "ValueError", delete_sent |-> TRUE]
    ELSE [remote |-> [rm EXCEPT !.files = @ \ {<<fl[f].external_id, f>>}],
          raises |-> "none", delete_sent |-> TRUE]

\* The row a deleted File leaves behind: nothing.
Deleted ==
    [exists |-> FALSE, recording_session |-> NULL, link |-> "",
     status |-> "pending", repository |-> NULL, external_id |-> NULL,
     doi |-> NULL, external_url |-> NULL, is_valid_link |-> FALSE,
     sampling_rate |-> NULL, duration |-> NULL, bit_depth |-> NULL,
     format |-> ""]

\* ------------------------------------ tasks.py: delete_file_from_repository
\* Lines 139-154: the File row is deleted when the handler returns.
DeleteOutcome(deleted, fl, f, repository) ==
    [file |-> IF deleted.raises # "none"
              THEN [fl EXCEPT ![f].status = "processing"]
              ELSE [fl EXCEPT ![f] = Deleted],
     remote |-> deleted.remote,
     run |-> [NoRun EXCEPT !.op = "delete_file", !.file = f,
                           !.repository = repository,
                           !.entered = TRUE, !.writes = <<"processing">>,
                           !.raises = deleted.raises,
                           !.delete_sent = deleted.delete_sent]]

\* File.DoesNotExist left to the job layer, as process_file leaves it.
FileNotFound_Raised(fl, rm, run) ==
    [file |-> fl, remote |-> rm, run |-> [run EXCEPT !.raises = "DoesNotExist"]]

\* Lines 146-148: File.DoesNotExist is caught, a message is returned.
FileNotFound(fl, rm, run) == [file |-> fl, remote |-> rm, run |-> run]

delete_file_from_repository(fl, rm, f, repository_id, o) ==
    LET repository == IF fl[f].repository # NULL THEN fl[f].repository
                      ELSE repository_id
        run == [NoRun EXCEPT !.op = "delete_file", !.file = f,
                             !.repository = repository]
    IN IF ~fl[f].exists
       THEN FileNotFound(fl, rm, run)
       ELSE IF repository = NULL
       THEN [file |-> fl, remote |-> rm,
             run |-> [run EXCEPT !.raises = "ValueError"]]
       ELSE IF Dispatch(repository, "delete_file") # "none"
       THEN [file |-> [fl EXCEPT ![f].status = "processing"], remote |-> rm,
             run |-> [run EXCEPT !.entered = TRUE, !.writes = <<"processing">>,
                                  !.raises = Dispatch(repository, "delete_file")]]
       ELSE DeleteOutcome(
              delete_file([fl EXCEPT ![f].status = "processing"], rm, f, o),
              fl, f, repository)

\* --------------------------------------- utils/zenodo.py: publish_deposition
\* files.first(), without the filter on external_id.
FirstFileWithId_Unfiltered(fl, s) ==
    IF SessionFiles(fl, s) = {} THEN NULL ELSE Min(SessionFiles(fl, s))

\* files.filter(external_id__isnull=False).first()
FirstFileWithId(fl, s) ==
    LET with_id == {f \in SessionFiles(fl, s) : fl[f].external_id # NULL}
    IN IF with_id = {} THEN NULL ELSE Min(with_id)

\* f.link.startswith(base_url)
StartsWithBaseUrl(link) == link = "zenodo"

\* Python's truth value of a File.doi: None and "" are false.
Truthy(doi) == doi \notin {NULL, EmptyDoi}

\* The stamping loop without the test on the file's own DOI.
StampFile_IgnoreDoi(rec, deposition_id, zenodo_doi) ==
    IF rec.external_id = deposition_id
    THEN [rec EXCEPT !.doi = zenodo_doi, !.link = "zenodo",
                     !.external_url = deposition_id]
    ELSE IF Truthy(rec.doi) /\ rec.link # "" /\ ~StartsWithBaseUrl(rec.link)
    THEN [rec EXCEPT !.repository = NULL]
    ELSE rec

\* The loop over the session's files once the remote returned a DOI.
StampFile(rec, deposition_id, zenodo_doi) ==
    IF ~Truthy(rec.doi) /\ rec.external_id = deposition_id
    THEN [rec EXCEPT !.doi = zenodo_doi, !.link = "zenodo",
                     !.external_url = deposition_id]
    ELSE IF Truthy(rec.doi) /\ rec.link # "" /\ ~StartsWithBaseUrl(rec.link)
    THEN [rec EXCEPT !.repository = NULL]
    ELSE rec

\* The remote publishes a draft that holds a file.
RemoteAccepts(rm, d) ==
    /\ IsDraft(rm, d)
    /\ \E f \in FileIds : <<d, f>> \in rm.files

publish_deposition(fl, rm, recording_session, payload, o) ==
    LET first_file_with_id == FirstFileWithId(fl, recording_session)
        deposition_id == fl[first_file_with_id].external_id
        put_ok == o.put /\ IsDraft(rm, deposition_id)
        accepted == o.publish # "http_error" /\ RemoteAccepts(rm, deposition_id)
        rm2 == IF accepted THEN [rm EXCEPT !.published = @ \cup {deposition_id}]
               ELSE rm
        zenodo_doi == ZenodoDoi(deposition_id)
        none == [file |-> fl, remote |-> rm, raises |-> "none", doi |-> NULL,
                 put_sent |-> FALSE, publish_sent |-> FALSE, published |-> NULL]
    IN IF first_file_with_id = NULL
       THEN [none EXCEPT !.raises = "ValueError"]
       ELSE IF payload /\ ~put_ok
       THEN [none EXCEPT !.raises = "HTTPError", !.put_sent = TRUE]
       ELSE IF ~accepted
       THEN [none EXCEPT !.raises = "ValueError",
                         !.put_sent = payload, !.publish_sent = TRUE]
       ELSE IF o.publish = "no_doi"
       THEN [none EXCEPT !.remote = rm2, !.raises = "ValueError",
                         !.put_sent = payload, !.publish_sent = TRUE,
                         !.published = deposition_id]
       ELSE [none EXCEPT
               !.file = [f \in FileIds |->
                           IF f \in SessionFiles(fl, recording_session)
                           THEN StampFile(fl[f], deposition_id, zenodo_doi)
                           ELSE fl[f]],
               !.remote = rm2, !.doi = zenodo_doi, !.put_sent = payload,
               !.publish_sent = TRUE, !.published = deposition_id]

\* ------------------------------------------ the entities a session references
Protocols == {"protocol1"}
Laboratories == {"laboratory1"}
Studies == {"study1", "study2"}
AnimalProfiles == {"profile1", "profile2", "profile3"}
Strains == {"strain1", "strain2"}
Softwares == {"software1", "software2"}
SoftwareVersions == {"version1", "version2"}
Hardwares == {"soundcard1", "speaker1", "amplifier1", "microphone1", "microphone2"}
References == {"ref_session", "ref_software", "ref_hardware", "ref_other"}
EntityIds == Protocols \cup Laboratories \cup Studies \cup AnimalProfiles
             \cup Strains \cup Softwares \cup Hardwares \cup References

\* AnimalProfile.strain, SoftwareVersion.software, Software.references and
\* Hardware.references
StrainOf(ap) ==
    CASE ap = "profile1" -> "strain1" [] ap = "profile3" -> "strain2"
      [] OTHER -> "none"
SoftwareOf(v) == IF v = "version1" THEN "software1" ELSE "software2"
SoftwareReferences(sw) ==
    IF sw = "software1" THEN {"ref_software"} ELSE {"ref_other"}
HardwareReferences(hw) ==
    IF hw = "microphone1" THEN {"ref_hardware"} ELSE {}

Validate(ent, ids) ==
    [e \in EntityIds |-> IF e \in ids THEN "validated" ELSE ent[e]]

\* ----------------- tasks.py: publish_session_deposition, the status cascade
\* Lines 174-213: the session, its protocol, laboratory, studies, animal
\* profiles, their strains, the software of its versions, its hardware and
\* its own references.
CascadeEntities(session) ==
    (IF session.protocol # "none" THEN {session.protocol} ELSE {})
    \cup (IF session.laboratory # "none" THEN {session.laboratory} ELSE {})
    \cup session.studies
    \cup session.animal_profiles
    \cup {StrainOf(ap) : ap \in {a \in session.animal_profiles : StrainOf(a) # "none"}}
    \cup {SoftwareOf(v) : v \in session.equipment_acquisition_software}
    \cup session.equipment_acquisition_hardware_soundcards
    \cup session.equipment_acquisition_hardware_speakers
    \cup session.equipment_acquisition_hardware_amplifiers
    \cup session.equipment_acquisition_hardware_microphones
    \cup session.references

SessionHardware(session) ==
    session.equipment_acquisition_hardware_soundcards
    \cup session.equipment_acquisition_hardware_speakers
    \cup session.equipment_acquisition_hardware_amplifiers
    \cup session.equipment_acquisition_hardware_microphones

\* Lines 216-219: Reference.software relates References to Software, and the
\* lookup is given the queryset of the session's SoftwareVersions; the ORM
\* refuses a queryset of another model with a ValueError.
SoftwareReferenceLookup(session) ==
    IF session.equipment_acquisition_software # {} THEN "ValueError" ELSE "none"

\* Lines 222-230
HardwareReferenceSet(session) ==
    UNION {HardwareReferences(hw) : hw \in SessionHardware(session)}

\* files.update(is_valid_link=True), without the filter on status.
MarkValidLinks_AllFiles(fl, s) ==
    [f \in FileIds |->
        IF f \in SessionFiles(fl, s)
        THEN [fl[f] EXCEPT !.is_valid_link = TRUE] ELSE fl[f]]

\* Line 233: files.filter(status="done").update(is_valid_link=True)
MarkValidLinks(fl, s) ==
    [f \in FileIds |->
        IF f \in SessionFiles(fl, s) /\ fl[f].status = "done"
        THEN [fl[f] EXCEPT !.is_valid_link = TRUE] ELSE fl[f]]

\* The cascade run whatever the handler did: the statuses are written even
\* when the publish raised.
PublishOutcome_CascadeOnFailure(pub, session, ent, repository_id) ==
    [file |-> MarkValidLinks(pub.file, SessionId),
     remote |-> pub.remote,
     rs |-> [session EXCEPT !.status = "published"],
     entity |-> Validate(ent, CascadeEntities(session)
                              \cup HardwareReferenceSet(session)),
     run |-> [NoRun EXCEPT !.op = "publish", !.repository = repository_id,
                           !.entered = TRUE, !.raises = pub.raises,
                           !.put_sent = pub.put_sent,
                           !.publish_sent = pub.publish_sent,
                           !.published = pub.published, !.doi = pub.doi]]

\* Lines 168-237 once the handler returned or raised.
PublishOutcome(pub, session, ent, repository_id) ==
    LET sent == [NoRun EXCEPT !.op = "publish", !.repository = repository_id,
                              !.entered = TRUE, !.raises = pub.raises,
                              !.put_sent = pub.put_sent,
                              !.publish_sent = pub.publish_sent,
                              !.published = pub.published, !.doi = pub.doi]
    IN IF pub.raises # "none"
       THEN [file |-> pub.file, remote |-> pub.remote, rs |-> session,
             entity |-> ent, run |-> sent]
       ELSE IF SoftwareReferenceLookup(session) # "none"
       THEN [file |-> pub.file, remote |-> pub.remote,
             rs |-> [session EXCEPT !.status = "published"],
             entity |-> Validate(ent, CascadeEntities(session)),
             run |-> [sent EXCEPT !.raises = SoftwareReferenceLookup(session)]]
       ELSE [file |-> MarkValidLinks(pub.file, SessionId),
             remote |-> pub.remote,
             rs |-> [session EXCEPT !.status = "published"],
             entity |-> Validate(ent, CascadeEntities(session)
                                      \cup HardwareReferenceSet(session)),
             run |-> sent]

publish_session_deposition(fl, rm, session, ent, repository_id, payload, o) ==
    LET run == [NoRun EXCEPT !.op = "publish", !.repository = repository_id]
    IN IF SessionFiles(fl, SessionId) = {}
       THEN [file |-> fl, remote |-> rm, rs |-> session, entity |-> ent,
             run |-> [run EXCEPT !.raises = "ValueError"]]
       ELSE IF Dispatch(repository_id, "publish_deposition") # "none"
       THEN [file |-> fl, remote |-> rm, rs |-> session, entity |-> ent,
             run |-> [run EXCEPT !.entered = TRUE,
                                  !.raises = Dispatch(repository_id,
                                                      "publish_deposition")]]
       ELSE PublishOutcome(publish_deposition(fl, rm, SessionId, payload, o),
                           session, ent, repository_id)

\* -------------------------------------------------------------- initial state
\* What a local copy holds: a 2 s 16-bit WAV, a half-second FLAC clip of an
\* encoding the bit-depth map does not list, and a file that is no audio.
AudioKinds ==
    [wav |-> [ext |-> ".wav", samplerate |-> 44100, frames |-> 88200,
              subtype |-> "PCM_16"],
     clip |-> [ext |-> ".FLAC", samplerate |-> 48000, frames |-> 24000,
               subtype |-> "ULAW"],
     text |-> [ext |-> ".txt", samplerate |-> 0, frames |-> 0,
               subtype |-> "none"]]

\* A File as the upload view creates it (status "pending").
NewFile ==
    [exists |-> TRUE, recording_session |-> SessionId, link |-> "media",
     status |-> "pending", repository |-> NULL, external_id |-> NULL,
     doi |-> NULL, external_url |-> NULL, is_valid_link |-> FALSE,
     sampling_rate |-> NULL, duration |-> NULL, bit_depth |-> NULL,
     format |-> ""]

\* The files a session starts with: a recording under the media root, one
\* staged under the temp root, one kept in a directory named temp of the
\* media root, one its owner described and gave a DOI, one
\* saved with a blank DOI, one without a link, one without a session, and one
\* that lives in another repository.
FileKinds ==
    {"fresh", "staged", "nested", "described", "blank", "unlinked", "orphan",
     "foreign"}

InitialFile(k) ==
    CASE k = "fresh" -> NewFile
      [] k = "staged" -> [NewFile EXCEPT !.link = "temp"]
      [] k = "nested" -> [NewFile EXCEPT !.link = "nested"]
      [] k = "described" ->
            [NewFile EXCEPT !.doi = ForeignDoi, !.sampling_rate = 96000,
                            !.duration = 5, !.bit_depth = 24, !.format = "MP3"]
      [] k = "blank" -> [NewFile EXCEPT !.doi = EmptyDoi]
      [] k = "unlinked" -> [NewFile EXCEPT !.link = ""]
      [] k = "orphan" -> [NewFile EXCEPT !.recording_session = NULL]
      [] k = "foreign" ->
            [NewFile EXCEPT !.link = "foreign", !.doi = ForeignDoi,
                            !.repository = OtherRepositoryId]

InitialDisk(k) ==
    IF k \in {"unlinked", "foreign"} THEN "missing" ELSE "ok"

InitialAudio(k) ==
    CASE k = "staged" -> AudioKinds.clip
      [] k = "foreign" -> AudioKinds.text
      [] OTHER -> AudioKinds.wav

NoEquipment ==
    [status |-> "draft", protocol |-> "none", laboratory |-> "none",
     studies |-> {}, animal_profiles |-> {},
     equipment_acquisition_software |-> {},
     equipment_acquisition_hardware_soundcards |-> {},
     equipment_acquisition_hardware_speakers |-> {},
     equipment_acquisition_hardware_amplifiers |-> {},
     equipment_acquisition_hardware_microphones |-> {},
     references |-> {}]

\* A session with every relation but acquisition software, and a session
\* that names only its protocol and an acquisition-software version.
SessionKinds ==
    <<[NoEquipment EXCEPT
        !.protocol = "protocol1", !.laboratory = "laboratory1",
        !.studies = {"study1"}, !.animal_profiles = {"profile1", "profile2"},
        !.equipment_acquisition_hardware_soundcards = {"soundcard1"},
        !.equipment_acquisition_hardware_amplifiers = {"amplifier1"},
        !.equipment_acquisition_hardware_microphones = {"microphone1"},
        !.references = {"ref_session"}],
     [NoEquipment EXCEPT
        !.protocol = "protocol1",
        !.equipment_acquisition_software = {"version1"}]>>

\* No process_file run is in flight for the file.
IdleTask ==
    [pc |-> "idle", repository |-> NULL, files |-> << >>, i |-> 0,
     external_id |-> [g \in FileIds |-> NULL], deposition_id |-> NULL,
     repo |-> NULL, created |-> FALSE, raises |-> "none", row |-> NewFile]

\* The sessions explored hold fresh recordings and at most one file of
\* another kind, under any primary key.
InitialKinds ==
    {k \in [FileIds -> FileKinds] :
        \A f, g \in FileIds : k[f] # "fresh" /\ k[g] # "fresh" => f = g}

\* The session with acquisition software is explored with fresh files.
InitialSessions(k) ==
    IF \A f \in FileIds : k[f] = "fresh"
    THEN {SessionKinds[1], SessionKinds[2]} ELSE {SessionKinds[1]}

\* The rows, the disk and the remote before any task ran.
InitialRows ==
    /\ \E k \in InitialKinds :
          /\ file = [f \in FileIds |-> InitialFile(k[f])]
          /\ disk = [f \in FileIds |-> InitialDisk(k[f])]
          /\ audio = [f \in FileIds |-> InitialAudio(k[f])]
          /\ rs \in InitialSessions(k)
    /\ entity = [e \in EntityIds |-> "draft"]
    /\ remote = [drafts |-> 0, files |-> {}, published |-> {}]
    /\ prepared = {}

Init ==
    /\ InitialRows
    /\ task = [f \in FileIds |-> IdleTask]

\* --------------------------------------------------------------------- actions
\* What the remote answers to the requests of one task run.  Answers to
\* requests that are never sent are not drawn: after a refused draft creation
\* nothing else is asked, a metadata PUT precedes a publish only when a
\* payload is given, and a DELETE follows only a listing that was answered.
BuilderAnswers ==
    {o \in [create : BOOLEAN, upload_fail : SUBSET FileIds, put : BOOLEAN] :
        o.create \/ (o.upload_fail = {} /\ o.put)}
DeleteAnswers ==
    {o \in [list : BOOLEAN, delete : BOOLEAN] : o.list \/ o.delete}
PublishAnswers ==
    [put : BOOLEAN, publish : {"ok", "http_error", "no_doi"}]
AllAccepted == [create |-> TRUE, upload_fail |-> {}, put |-> TRUE]

\* The arguments a task is queued with.
RepositoryArguments == {NULL} \cup RepositoryIds

\* One run of each task from the current state.
ProcessRun(f, repository_id, o) ==
    process_file(file, disk, audio, remote, f, repository_id, o)
DeleteRun(f, repository_id, o) ==
    delete_file_from_repository(file, remote, f, repository_id, o)
PublishRun(i) ==
    publish_session_deposition(file, remote, rs, entity,
                               i.repository_id, i.payload, i.o)

\* The answers drawn for a process_file run: none when it ends before the
\* deposition builder.
ProcessAnswers(f, repository_id) ==
    IF ProcessRun(f, repository_id, AllAccepted).run.builder_ran
    THEN BuilderAnswers ELSE {AllAccepted}

ProcessFile ==
    \E f \in FileIds, repository_id \in RepositoryArguments :
      \E o \in ProcessAnswers(f, repository_id) :
        \E r \in {ProcessRun(f, repository_id, o)} :
           /\ file' = r.file
           /\ disk' = r.disk
           /\ remote' = r.remote
           /\ prepared' =
                IF r.run.raises = "none" /\ r.run.uploaded # {}
                THEN prepared \cup {<<r.run.deposition_id, f>>}
                ELSE prepared
           /\ UNCHANGED <<audio, rs, entity, task>>

DeleteFile ==
    \E f \in FileIds, repository_id \in RepositoryArguments,
       o \in DeleteAnswers :
        \E r \in {DeleteRun(f, repository_id, o)} :
           /\ file' = r.file
           /\ remote' = r.remote
           /\ UNCHANGED <<disk, audio, rs, entity, prepared, task>>

PublishInputs ==
    {i \in [repository_id : RepositoryIds, payload : BOOLEAN,
            o : PublishAnswers] : i.payload \/ i.o.put}

PublishSession ==
    \E i \in PublishInputs :
        \E r \in {PublishRun(i)} :
           /\ file' = r.file
           /\ remote' = r.remote
           /\ rs' = r.rs
           /\ entity' = r.entity
           /\ UNCHANGED <<disk, audio, prepared, task>>

Next == ProcessFile \/ DeleteFile \/ PublishSession

Spec == Init /\ [][Next]_vars

\* ------------------------------------------- interleaved process_file runs
\* The workers run the process_file tasks of a session side by side.  A run
\* is cut at its reads and writes of the database and at its requests:
\*   idle -> lookup    the status "processing" is saved, the metadata read
\*   lookup -> create | upload    the builder reads its list of files
\*   create -> upload  the draft is requested
\*   upload            one turn of the upload loop
\*   describe -> finish    temp copies removed, metadata PUT
\*   finish -> done    the final status is saved
\* The rows the builder read are its own copies: it tests the external_id it
\* read, and saves only the fields it names.  task[f].row is file_instance,
\* the copy of its row that the run for f holds.

\* A save without update_fields: the whole copy the task holds is written.
SaveStatus_WholeRow(fl, f, row, status) ==
    [fl EXCEPT ![f] = [row EXCEPT !.status = status]]

\* file_instance.status = status; file_instance.save(update_fields=["status"])
SaveStatus(fl, f, row, status) == [fl EXCEPT ![f].status = status]

\* tasks.py 90-103: the body up to the call of the builder.
Started(fl, dk, au, f, repository) ==
    LET extracted == extract_metadata(fl[f], au[f], LocalCopy(dk, fl, f))
    IN IF link_to_local_path(fl[f].link).raises # "none"
       THEN [file |-> fl, raises |-> link_to_local_path(fl[f].link).raises]
       ELSE IF extracted.raises # "none"
       THEN [file |-> fl, raises |-> extracted.raises]
       ELSE IF fl[f].recording_session = NULL
       THEN [file |-> [fl EXCEPT ![f] = extracted.rec], raises |-> "ValueError"]
       ELSE IF Dispatch(repository, "prepare_deposition_for_session") # "none"
       THEN [file |-> [fl EXCEPT ![f] = extracted.rec],
             raises |-> Dispatch(repository, "prepare_deposition_for_session")]
       ELSE [file |-> [fl EXCEPT ![f] = extracted.rec], raises |-> "none"]

BeginProcess(f) ==
    /\ task[f].pc = "idle"
    /\ file[f].exists
    /\ \E repository_id \in RepositoryArguments :
         \E repository \in {IF repository_id = NULL /\ file[f].repository # NULL
                            THEN file[f].repository
                            ELSE IF repository_id = NULL THEN ZenodoRepositoryId
                            ELSE repository_id} :
           \E b \in {Started(SaveStatus(file, f, file[f], "processing"),
                              disk, audio, f, repository)} :
             /\ file' = b.file
             /\ task' = [task EXCEPT
                           ![f] = [IdleTask EXCEPT
                                     !.pc = IF b.raises = "none" THEN "lookup"
                                            ELSE "finish",
                                     !.repository = repository,
                                     !.raises = b.raises,
                                     !.row = b.file[f]]]
    /\ UNCHANGED <<disk, audio, rs, entity, remote, prepared>>

\* zenodo.py 285-309: the list is read and the deposition to reuse looked up.
LookupDeposition(f) ==
    /\ task[f].pc = "lookup"
    /\ \E files \in {WorkingList(file, file[f].recording_session, f)} :
         \E existing_file \in {ExistingFile(file, files)} :
           task' = [task EXCEPT
                      ![f].files = files,
                      ![f].i = 1,
                      ![f].external_id = [g \in FileIds |-> file[g].external_id],
                      ![f].deposition_id =
                          IF existing_file = NULL THEN NULL
                          ELSE file[existing_file].external_id,
                      ![f].repo =
                          IF existing_file = NULL THEN NULL
                          ELSE file[existing_file].repository,
                      ![f].pc = IF existing_file = NULL THEN "create"
                                ELSE "upload"]
    /\ UNCHANGED <<file, disk, audio, rs, entity, remote, prepared>>

\* zenodo.py 311-321: the draft is requested.
CreateDraft(f) ==
    /\ task[f].pc = "create"
    /\ \E create \in BOOLEAN :
         IF create /\ remote.drafts < MaxDepositions
         THEN /\ remote' = [remote EXCEPT !.drafts = @ + 1]
              /\ task' = [task EXCEPT ![f].deposition_id = remote.drafts + 1,
                                      ![f].repo = ZenodoRepositoryId,
                                      ![f].created = TRUE,
                                      ![f].pc = "upload"]
         ELSE /\ remote' = remote
              /\ task' = [task EXCEPT ![f].raises = "HTTPError",
                                      ![f].pc = "finish"]
    /\ UNCHANGED <<file, disk, audio, rs, entity, prepared>>

\* The rows as the run holds them: the external_id is the one it read.
RowsRead(t) ==
    [g \in FileIds |->
        IF g \in Range(t.files)
        THEN [file[g] EXCEPT !.external_id = t.external_id[g]] ELSE file[g]]

\* save(update_fields=...): the fields the turn wrote reach the database.
Saved(fl, turn, g) ==
    [fl EXCEPT
       ![g].status = IF g \in turn.errored THEN "error" ELSE @,
       ![g].repository = IF g \in turn.uploaded THEN turn.file[g].repository
                         ELSE @,
       ![g].external_id = IF g \in turn.uploaded THEN turn.file[g].external_id
                          ELSE @]

\* zenodo.py 324-356: one turn of the upload loop.
UploadNext(f) ==
    /\ task[f].pc = "upload"
    /\ task[f].i <= Len(task[f].files)
    /\ \E g \in {task[f].files[task[f].i]}, refused \in BOOLEAN :
         \E turn \in {UploadFile(BuilderResult(RowsRead(task[f]), disk, remote),
                                 disk, g, task[f].deposition_id, task[f].repo,
                                 [upload_fail |-> IF refused THEN {g} ELSE {}])} :
           /\ refused => turn.upload_failed = {g}
           /\ file' = Saved(file, turn, g)
           /\ remote' = turn.remote
           /\ task' = [task EXCEPT
                         ![f].external_id[g] = turn.file[g].external_id,
                         ![f].row = IF g = f
                                    THEN Saved([file EXCEPT ![f] = task[f].row],
                                               turn, f)[f]
                                    ELSE @,
                         ![f].raises = turn.raises,
                         ![f].i = @ + 1,
                         ![f].pc = IF turn.raises # "none" THEN "finish"
                                   ELSE IF task[f].i = Len(task[f].files)
                                   THEN "describe" ELSE "upload"]
    /\ UNCHANGED <<disk, audio, rs, entity, prepared>>

\* zenodo.py 358-376: temp copies removed, metadata PUT.
DescribeDraft(f) ==
    /\ task[f].pc = "describe"
    /\ \E put \in BOOLEAN :
         \E d \in {DescribeDeposition(BuilderResult(RowsRead(task[f]), disk, remote),
                                      disk, task[f].files, task[f].deposition_id,
                                      [put |-> put])} :
           /\ disk' = d.disk
           /\ task' = [task EXCEPT ![f].raises = d.raises, ![f].pc = "finish"]
    /\ UNCHANGED <<file, audio, rs, entity, remote, prepared>>

\* tasks.py 105-114: the final status is saved.
FinishProcess(f) ==
    /\ task[f].pc = "finish"
    /\ file' = SaveStatus(file, f, task[f].row, FinalStatus(task[f].raises))
    /\ task' = [task EXCEPT ![f].pc = "done"]
    /\ UNCHANGED <<disk, audio, rs, entity, remote, prepared>>

Begin == \E f \in FileIds : BeginProcess(f)
Lookup == \E f \in FileIds : LookupDeposition(f)
Create == \E f \in FileIds : CreateDraft(f)
Upload == \E f \in FileIds : UploadNext(f)
Describe == \E f \in FileIds : DescribeDraft(f)
Finish == \E f \in FileIds : FinishProcess(f)

ConcurrentNext == Begin \/ Lookup \/ Create \/ Upload \/ Describe \/ Finish

ConcurrentSpec == Init /\ [][ConcurrentNext]_vars

\* The publish task of the session runs beside the process_file tasks.
PipelineNext == ConcurrentNext \/ PublishSession

PipelineSpec == Init /\ [][PipelineNext]_vars

\* ------------------------------------------------------------ the job layer
\* process_file and delete_file_from_repository are queued as jobs
\* (@shared_task(bind=True, max_retries=1)).  The worker executes a queued
\* job; a job whose execution raises is queued again only when the exception
\* is the Retry that self.retry() raises, and only while the job's retries are
\* below max_retries.  Here task[f] is the job queued for file f.
max_retries == 1

Jobs == {"process_file", "delete_file_from_repository"}

QueuedJob(name, repository_id) ==
    [name |-> name, repository_id |-> repository_id, state |-> "queued",
     executions |-> 0, retries |-> 0]

\* A job layer that queues a failed job again whatever its retries.
JobEnded_RetryUnbounded(job, raises) ==
    IF raises = "none"
    THEN [job EXCEPT !.state = "success", !.executions = @ + 1]
    ELSE [job EXCEPT !.executions = @ + 1, !.retries = @ + 1]

\* The job after an execution that returned or raised.
JobEnded(job, raises) ==
    IF raises = "none"
    THEN [job EXCEPT !.state = "success", !.executions = @ + 1]
    ELSE IF raises = "Retry" /\ job.retries < max_retries
    THEN [job EXCEPT !.executions = @ + 1, !.retries = @ + 1]
    ELSE [job EXCEPT !.state = "failure", !.executions = @ + 1]

JobInit ==
    /\ InitialRows
    /\ task \in [FileIds -> {QueuedJob(n, a) : n \in Jobs, a \in RepositoryArguments}]

ExecuteProcessJob ==
    \E f \in FileIds :
      /\ task[f].name = "process_file"
      /\ task[f].state = "queued"
      /\ \E o \in ProcessAnswers(f, task[f].repository_id) :
           \E r \in {ProcessRun(f, task[f].repository_id, o)} :
             /\ file' = r.file
             /\ disk' = r.disk
             /\ remote' = r.remote
             /\ task' = [task EXCEPT ![f] = JobEnded(@, r.run.raises)]
      /\ UNCHANGED <<audio, rs, entity, prepared>>

ExecuteDeleteJob ==
    \E f \in FileIds :
      /\ task[f].name = "delete_file_from_repository"
      /\ task[f].state = "queued"
      /\ \E o \in DeleteAnswers :
           \E r \in {DeleteRun(f, task[f].repository_id, o)} :
             /\ file' = r.file
             /\ remote' = r.remote
             /\ task' = [task EXCEPT ![f] = JobEnded(@, r.run.raises)]
      /\ UNCHANGED <<disk, audio, rs, entity, prepared>>

JobNext == ExecuteProcessJob \/ ExecuteDeleteJob

JobSpec == JobInit /\ [][JobNext]_vars

\* ------------------------------------------------- the extractor on its own
\* extract_metadata applied to the first file of the session, whose metadata
\* fields hold any of: nothing, zero, a value the user gave.
UserSamplingRates == {NULL, 0, 44100, 96000}
UserDurations == {NULL, 0, 5}
UserBitDepths == {NULL, 16, 24}
UserFormats == {"", "WAV", "MP3"}

ExtractInit ==
    /\ \E sampling_rate \in UserSamplingRates, duration \in UserDurations,
          bit_depth \in UserBitDepths, format \in UserFormats :
         file = [f \in FileIds |->
                   IF f = 1
                   THEN [NewFile EXCEPT !.sampling_rate = sampling_rate,
                                        !.duration = duration,
                                        !.bit_depth = bit_depth,
                                        !.format = format]
                   ELSE NewFile]
    /\ disk \in [FileIds -> {"ok", "missing"}]
    /\ audio \in [FileIds -> {AudioKinds.wav, AudioKinds.clip, AudioKinds.text}]
    /\ rs = SessionKinds[1]
    /\ entity = [e \in EntityIds |-> "draft"]
    /\ remote = [drafts |-> 0, files |-> {}, published |-> {}]
    /\ prepared = {}
    /\ task = [f \in FileIds |-> IdleTask]

\* tasks.py 94-95: the metadata of a file is read and saved.
ExtractMetadata ==
    \E f \in FileIds :
      \E x \in {extract_metadata(file[f], audio[f], LocalCopy(disk, file, f))} :
        /\ x.raises = "none"
        /\ file' = [file EXCEPT ![f] = x.rec]
        /\ UNCHANGED <<disk, audio, rs, entity, remote, prepared, task>>

ExtractSpec == ExtractInit /\ [][ExtractMetadata]_vars

\* ----------------------------------------- link_to_local_path on its own
\* A link is kept here by its text: blanks around it or none, a scheme and
\* host or none, the directory it starts with, and the segments that follow,
\* separated by "/".  A path is the sequence of its segments from "/".
Segments ==
    {"a.wav", "d", "..", ".", "", "a%20b.wav", "%2E%2E", "c%231.wav",
     "c#1.wav", "x?y.wav"}
SegmentPaths == UNION {[1..n -> Segments] : n \in 1..MaxSegments}
Links ==
    [pad : BOOLEAN, scheme : {"", "http://host", "https://host"},
     lead : {"/media/", "/temp/", "/data/"}, p : SegmentPaths]

\* settings.MEDIA_ROOT and settings.TEMP_ROOT, two absolute directories.
MEDIA_ROOT == <<"srv", "media">>
TEMP_ROOT == <<"srv", "temp">>

\* What urlsplit keeps of a segment as path: the text before "?" or "#".
BeforeDelimiter(segment) ==
    CASE segment = "c#1.wav" -> "c" [] segment = "x?y.wav" -> "x"
      [] OTHER -> segment

\* urllib.parse.urlsplit(link).path: the query and the fragment are dropped.
urlsplit_path(p) ==
    LET cut == {i \in 1..Len(p) : BeforeDelimiter(p[i]) # p[i]}
    IN IF cut = {} THEN p
       ELSE SubSeq(p, 1, Min(cut) - 1) \o <<BeforeDelimiter(p[Min(cut)])>>

\* urllib.parse.unquote
unquote(segment) ==
    CASE segment = "a%20b.wav" -> "a b.wav" [] segment = "%2E%2E" -> ".."
      [] segment = "c%231.wav" -> "c#1.wav" [] OTHER -> segment

\* os.path.join(root, rest): a rest that starts with "/" replaces the root.
join(root, rest) ==
    IF Len(rest) >= 2 /\ rest[1] = "" THEN rest ELSE root \o rest

RECURSIVE normpath(_, _)
\* os.path.normpath of an absolute path: empty and "." segments are
\* dropped, ".." drops the segment before it and is dropped at "/".
normpath(done, todo) ==
    IF todo = << >> THEN done
    ELSE IF Head(todo) \in {"", "."} THEN normpath(done, Tail(todo))
    ELSE IF Head(todo) = ".."
    THEN normpath(IF done = << >> THEN done ELSE SubSeq(done, 1, Len(done) - 1),
                  Tail(todo))
    ELSE normpath(Append(done, Head(todo)), Tail(todo))

\* The function taking a link with a scheme for a local path.
ResolveLink_NoUrlSplit(link) ==
    LET rest == IF link.scheme # "" THEN <<link.scheme, link.lead>> \o link.p
                ELSE link.p
        path == IF link.scheme # "" THEN rest
                ELSE IF link.lead = "/media/" THEN join(MEDIA_ROOT, rest)
                ELSE IF link.lead = "/temp/" THEN join(TEMP_ROOT, rest)
                ELSE <<"data">> \o rest
    IN normpath(<< >>, [i \in 1..Len(path) |-> unquote(path[i])])

\* file_handler.py 21-37, for a link that is not empty.  The blanks around
\* the link are stripped first, so the path does not depend on link.pad.
ResolveLink(link) ==
    LET rest == IF link.scheme # "" THEN urlsplit_path(link.p) ELSE link.p
        path == IF link.lead = "/media/" THEN join(MEDIA_ROOT, rest)
                ELSE IF link.lead = "/temp/" THEN join(TEMP_ROOT, rest)
                ELSE <<"data">> \o rest
    IN normpath(<< >>, [i \in 1..Len(path) |-> unquote(path[i])])

\* The first file of the session has any of the links; a run resolves it.
ResolveInit ==
    /\ \E link \in Links :
         file = [f \in FileIds |->
                   IF f = 1 THEN [NewFile EXCEPT !.link = link]
                   ELSE [NewFile EXCEPT
                           !.link = [pad |-> FALSE, scheme |-> "",
                                     lead |-> "/media/", p |-> <<"a.wav">>]]]
    /\ disk = [f \in FileIds |-> "ok"]
    /\ audio = [f \in FileIds |-> AudioKinds.wav]
    /\ rs = SessionKinds[1]
    /\ entity = [e \in EntityIds |-> "draft"]
    /\ remote = [drafts |-> 0, files |-> {}, published |-> {}]
    /\ prepared = {}
    /\ task = [f \in FileIds |-> [pc |-> "idle", local_path |-> << >>]]

\* tasks.py 94: local_path = link_to_local_path(file_instance)
ResolvePath ==
    \E f \in FileIds :
      /\ task[f].pc = "idle"
      /\ task' = [task EXCEPT ![f] = [pc |-> "resolved",
                                      local_path |-> ResolveLink(file[f].link)]]
      /\ UNCHANGED <<file, disk, audio, rs, entity, remote, prepared>>

ResolveSpec == ResolveInit /\ [][ResolvePath]_vars

\* ---------------------------------------------------------------- properties
\* Each property is stated of every run a task can make from a reachable
\* state: f is the file a run is queued for, r what the run returns.

\* C1 (as claimed): once a builder call has returned after tagging a file,
\* a later process_file run for another file of the session, while that
\* deposition is still a draft to which a file of the session is tagged,
\* sends no "create draft" request and, when it returns, returns the same
\* deposition.
C1_DepositionReuse ==
    \A p \in prepared :
      \A f \in FileIds \ {p[2]}, repository_id \in RepositoryArguments :
        \A o \in ProcessAnswers(f, repository_id) :
          \A r \in {ProcessRun(f, repository_id, o)} :
            ( /\ r.run.builder_ran
              /\ IsDraft(remote, p[1])
              /\ \E g \in SessionFiles(file, SessionId) :
                    file[g].external_id = p[1] /\ file[g].repository # NULL )
            => /\ ~r.run.create_sent
               /\ r.run.raises = "none" => r.run.deposition_id = p[1]

\* The files of a builder call's list whose link resolves to a path where no
\* file, or an empty one, is found.
MissingOnDisk(files) ==
    {g \in Range(files) : LocalCopy(disk, file, g) \in {"missing", "empty"}}

\* The remote accepted every request the builder call sent.
RequestsAccepted(run) == run.raises # "HTTPError" /\ run.upload_failed = {}

\* What C2 promises of a builder call in which k is the one missing file.
IsolatedTo(r, k) ==
    /\ r.run.errored = {k}
    /\ \A g \in Range(r.run.files) \ {k} :
          /\ r.file[g].repository # NULL
          /\ r.file[g].external_id = r.run.deposition_id
    /\ r.run.deposition_id # NULL

\* C2 (as claimed): in a builder call whose requests are all accepted and in
\* whose list exactly one file k is missing on disk or empty, only k is
\* marked "error", every other file of the list ends tagged with the returned
\* deposition, and the deposition returned is not null.
C2_PartialFailureIsolation ==
    \A f \in FileIds, repository_id \in RepositoryArguments :
      \A o \in ProcessAnswers(f, repository_id) :
        \A r \in {ProcessRun(f, repository_id, o)} :
          \A k \in FileIds :
            ( /\ r.run.builder_ran
              /\ RequestsAccepted(r.run)
              /\ MissingOnDisk(r.run.files) = {k} )
            => IsolatedTo(r, k)

\* C2 (amended): the same, for a file k that is not already tagged with the
\* deposition the call uses.
C2_IsolationOfUntaggedFile ==
    \A f \in FileIds, repository_id \in RepositoryArguments :
      \A o \in ProcessAnswers(f, repository_id) :
        \A r \in {ProcessRun(f, repository_id, o)} :
          \A k \in FileIds :
            ( /\ r.run.builder_ran
              /\ RequestsAccepted(r.run)
              /\ MissingOnDisk(r.run.files) = {k}
              /\ file[k].external_id # r.run.deposition )
            => IsolatedTo(r, k)

\* A builder call marks the one missing file of its list "error" and uploads
\* another file.
C2_Witness ==
    \E f \in FileIds, repository_id \in RepositoryArguments :
      \E o \in ProcessAnswers(f, repository_id) :
        \E r \in {ProcessRun(f, repository_id, o)} :
          \E k \in FileIds :
            /\ r.run.builder_ran
            /\ RequestsAccepted(r.run)
            /\ MissingOnDisk(r.run.files) = {k}
            /\ file[k].external_id # r.run.deposition
            /\ r.run.errored = {k}
            /\ r.run.uploaded # {}
            /\ r.run.deposition_id # NULL

\* The session has no file, or no file of it carries a deposition id.
NoDepositionToPublish ==
    \A f \in SessionFiles(file, SessionId) : file[f].external_id = NULL

\* C3 (as claimed): publishing a session without files, or whose files all have
\* a null external_id, raises ValueError and sends no publish request.
C3_PublishPrecondition ==
    \A i \in PublishInputs :
      \A r \in {PublishRun(i)} :
        NoDepositionToPublish
        => r.run.raises = "ValueError" /\ ~r.run.publish_sent

\* C3 (amended): such a publish sends no publish request and raises an error:
\* ValueError when the session has no file or the repository's handler is
\* reached, NotImplementedError when the repository has no handler.
C3_PublishPreconditionByHandler ==
    \A i \in PublishInputs :
      \A r \in {PublishRun(i)} :
        NoDepositionToPublish
        => /\ ~r.run.publish_sent
           /\ r.run.raises =
                IF SessionFiles(file, SessionId) = {}
                   \/ get_repository_handler(i.repository_id) = "zenodo"
                THEN "ValueError" ELSE "NotImplementedError"

\* A session whose file was processed without obtaining a deposition id is
\* refused by the handler with a ValueError, and no publish request is sent.
C3_Witness ==
    \E i \in PublishInputs :
      \E r \in {PublishRun(i)} :
        /\ NoDepositionToPublish
        /\ \E f \in SessionFiles(file, SessionId) : file[f].status = "error"
        /\ get_repository_handler(i.repository_id) = "zenodo"
        /\ r.run.entered
        /\ r.run.raises = "ValueError"
        /\ ~r.run.publish_sent

\* The entities C4 lists for a session.
EntitiesOfSession(session) ==
    {e \in {session.protocol, session.laboratory} : e # "none"}
    \cup session.studies
    \cup session.animal_profiles
    \cup ({StrainOf(ap) : ap \in session.animal_profiles} \ {"none"})
    \cup {SoftwareOf(v) : v \in session.equipment_acquisition_software}
    \cup session.equipment_acquisition_hardware_soundcards
    \cup session.equipment_acquisition_hardware_speakers
    \cup session.equipment_acquisition_hardware_amplifiers
    \cup session.equipment_acquisition_hardware_microphones
    \cup session.references

\* C4 (as claimed): after a publish run that returns, the session is
\* published, the entities of the session are validated, and among the files
\* of the session only those in status "done" have is_valid_link set.
C4_StatusCascadeCompleteness ==
    \A i \in PublishInputs :
      \A r \in {PublishRun(i)} :
        (r.run.entered /\ r.run.raises = "none")
        => /\ r.rs.status = "published"
           /\ \A e \in EntitiesOfSession(rs) : r.entity[e] = "validated"
           /\ \A f \in SessionFiles(r.file, SessionId) :
                 r.file[f].is_valid_link => r.file[f].status = "done"

\* What C5 allows publish_deposition to change of a file: nothing but a
\* repository cleared on a file whose link does not start with the base URL.
OnlyRepositoryCleared(before, after) ==
    /\ after.doi = before.doi
    /\ after.link = before.link
    /\ [after EXCEPT !.repository = before.repository] = before
    /\ after.repository # before.repository
       => after.repository = NULL /\ ~StartsWithBaseUrl(before.link)

\* C5 (as claimed): publish_deposition leaves the doi and the link of every
\* file whose doi is not null as they were, and changes of such a file at
\* most the repository, cleared when the link does not start with the base
\* URL.
C5_DoiImmutability ==
    \A payload \in BOOLEAN, o \in PublishAnswers :
      \A p \in {publish_deposition(file, remote, SessionId, payload, o)} :
        \A f \in FileIds :
          file[f].doi # NULL => OnlyRepositoryCleared(file[f], p.file[f])

\* C5 (amended): the same, of every file whose doi is neither null nor the
\* empty string.
C5_NonEmptyDoiImmutability ==
    \A payload \in BOOLEAN, o \in PublishAnswers :
      \A p \in {publish_deposition(file, remote, SessionId, payload, o)} :
        \A f \in FileIds :
          file[f].doi \notin {NULL, EmptyDoi}
          => OnlyRepositoryCleared(file[f], p.file[f])

\* A publish that obtains a DOI for the deposition a file with a DOI of its
\* own is tagged with: the file keeps its doi and link, its repository is
\* cleared.
C5_Witness ==
    \E payload \in BOOLEAN, o \in PublishAnswers :
      \E p \in {publish_deposition(file, remote, SessionId, payload, o)} :
        \E f \in FileIds :
          /\ file[f].doi \notin {NULL, EmptyDoi}
          /\ p.doi # NULL
          /\ file[f].external_id = p.published
          /\ file[f].repository # NULL
          /\ p.file[f].repository = NULL
          /\ p.file[f].doi = file[f].doi

\* C6 (as claimed): as long as nothing of the session is published, the files
\* of the session that carry an external_id all carry the same one.
C6_SessionScopedExternalId ==
    (rs.status # "published" /\ remote.published = {})
    => \A f, g \in SessionFiles(file, SessionId) :
          (file[f].external_id # NULL /\ file[g].external_id # NULL)
          => file[f].external_id = file[g].external_id

\* C7 (as claimed): for a session whose files are all in status "pending",
\* "processing" or "error", a publish run sends no publish request and does
\* not set the session to published.
C7_NoPublishWithoutEligibleFile ==
    \A i \in PublishInputs :
      \A r \in {PublishRun(i)} :
        (\A f \in SessionFiles(file, SessionId) :
            file[f].status \in {"pending", "processing", "error"})
        => ~r.run.publish_sent /\ r.rs.status = rs.status

\* C8 (as claimed): a file that a process_file run leaves in status "done" was
\* uploaded, not refused, and is tagged with the deposition the builder
\* returned.
C8_DoneMatchesUpload ==
    \A f \in FileIds, repository_id \in RepositoryArguments :
      \A o \in ProcessAnswers(f, repository_id) :
        \A r \in {ProcessRun(f, repository_id, o)} :
          (r.run.entered /\ r.file[f].status = "done")
          => /\ f \notin r.run.upload_failed
             /\ r.file[f].repository # NULL
             /\ r.file[f].external_id = r.run.deposition_id
             /\ <<r.run.deposition_id, f>> \in r.remote.files

\* C9: a process_file run that enters its body writes status "processing"
\* first; it ends with "done" written last when the body returned and with
\* "error" written last when the body raised, and never leaves the file in
\* status "processing".
C9_ProcessFileOutcome ==
    \A f \in FileIds, repository_id \in RepositoryArguments :
      \A o \in ProcessAnswers(f, repository_id) :
        \A r \in {ProcessRun(f, repository_id, o)} :
          r.run.entered
          => /\ Head(r.run.writes) = "processing"
             /\ r.run.raises = "none"
                => /\ r.file[f].status = "done"
                   /\ r.run.writes[Len(r.run.writes)] = "done"
             /\ r.run.raises # "none"
                => /\ r.file[f].status = "error"
                   /\ r.run.writes[Len(r.run.writes)] = "error"
             /\ r.file[f].status # "processing"

\* A run whose metadata PUT the remote refuses after the file was uploaded
\* ends in status "error", a run for a repository without handler ends in
\* status "error", and a run repeated for a file in status "error" ends in
\* status "done".
C9_Witness ==
    /\ \E f \in FileIds, repository_id \in RepositoryArguments :
         \E o \in ProcessAnswers(f, repository_id) :
           \E r \in {ProcessRun(f, repository_id, o)} :
             /\ r.run.raises = "HTTPError"
             /\ r.run.put_sent
             /\ f \in r.run.uploaded
             /\ r.file[f].status = "error"
    /\ \E f \in FileIds :
         \E r \in {ProcessRun(f, OtherRepositoryId, AllAccepted)} :
           /\ r.run.raises = "NotImplementedError"
           /\ r.file[f].status = "error"
    /\ \E f \in FileIds :
         \E r \in {ProcessRun(f, NULL, AllAccepted)} :
           /\ r.run.raises = "none"
           /\ file[f].status = "error"
           /\ r.file[f].status = "done"

\* The files on which a run set is_valid_link.
NewlyValid(before, after) ==
    {g \in FileIds : after[g].is_valid_link /\ ~before[g].is_valid_link}

\* C10: is_valid_link is set only by a publish run whose publish request the
\* remote answered with a DOI, and only on files in status "done"; no
\* process_file run, no deletion run and no publish run that raised in the
\* handler sets it.
C10_ValidLinkOnlyByPublish ==
    /\ \A f \in FileIds, repository_id \in RepositoryArguments :
         /\ \A o \in ProcessAnswers(f, repository_id) :
              \A r \in {ProcessRun(f, repository_id, o)} :
                NewlyValid(file, r.file) = {}
         /\ \A o \in DeleteAnswers :
              \A r \in {DeleteRun(f, repository_id, o)} :
                NewlyValid(file, r.file) = {}
    /\ \A i \in PublishInputs :
         \A r \in {PublishRun(i)} :
           \A g \in NewlyValid(file, r.file) :
             /\ r.run.doi # NULL
             /\ r.run.published # NULL
             /\ file[g].status = "done"
             /\ r.file[g].status = "done"

\* A publish sets is_valid_link on a file in status "done" and leaves it
\* unset on a file of the session that is in another status.
C10_Witness ==
    \E i \in PublishInputs :
      \E r \in {PublishRun(i)} :
        \E g, h \in SessionFiles(file, SessionId) :
          /\ g \in NewlyValid(file, r.file)
          /\ file[h].status # "done"
          /\ ~r.file[h].is_valid_link

\* C11: every step of the pipeline changes the status of an entity only to
\* "validated", and only as a publish run that obtained a DOI from the remote;
\* an entity that is validated stays validated and a session that is
\* published stays published.
C11_EntityStatusMonotone ==
    [][ /\ \A e \in EntityIds :
             /\ entity'[e] # entity[e] => entity'[e] = "validated"
             /\ entity[e] = "validated" => entity'[e] = "validated"
        /\ rs.status = "published" => rs'.status = "published"
        /\ entity' # entity
           => \E i \in PublishInputs :
                \E r \in {PublishRun(i)} :
                  /\ r.run.doi # NULL
                  /\ r.run.publish_sent
                  /\ entity' = r.entity /\ rs' = r.rs
                  /\ file' = r.file /\ remote' = r.remote ]_vars

\* After a publish that validated the entities of the session, while other
\* entities are still drafts, a publish run the remote declines and a
\* process_file run are still to come.
C11_Witness ==
    /\ rs.status = "published"
    /\ \E e \in EntityIds : entity[e] = "validated"
    /\ \E e \in EntityIds : entity[e] = "draft"
    /\ \E i \in PublishInputs :
         \E r \in {PublishRun(i)} :
           r.run.publish_sent /\ r.run.raises # "none" /\ r.entity = entity
    /\ \E f \in FileIds : file[f].exists /\ file[f].status = "pending"

\* The runs for f and g each read a list that holds their own file only,
\* found no deposition to reuse and had a draft created.
BothCreated(f, g) ==
    /\ f # g
    /\ task[f].created /\ task[g].created
    /\ task[f].files = <<f>> /\ task[g].files = <<g>>

\* C12: when the process_file runs for two different files of a session have
\* both looked up a deposition to reuse and found none, each has its own
\* draft created on the remote and tags its file with that draft only, so
\* that the external_ids the two runs save for their files are different.
C12_ConcurrentDrafts ==
    \A f, g \in FileIds :
      BothCreated(f, g)
      => /\ task[f].deposition_id # task[g].deposition_id
         /\ {task[f].deposition_id, task[g].deposition_id} \subseteq 1..remote.drafts
         /\ task[f].external_id[f] \in {NULL, task[f].deposition_id}
         /\ task[g].external_id[g] \in {NULL, task[g].deposition_id}
         /\ (task[f].external_id[f] # NULL /\ task[g].external_id[g] # NULL)
            => task[f].external_id[f] # task[g].external_id[g]

\* Two runs of a session that had no deposition have ended with status
\* "done", each after creating a draft, and the two files carry different
\* external_ids.
C12_Witness ==
    \E f, g \in SessionFiles(file, SessionId) :
      /\ BothCreated(f, g)
      /\ task[f].pc = "done" /\ task[g].pc = "done"
      /\ file[f].status = "done" /\ file[g].status = "done"
      /\ file[f].external_id = task[f].external_id[f]
      /\ file[g].external_id = task[g].external_id[g]
      /\ file[f].external_id # NULL /\ file[g].external_id # NULL
      /\ file[f].external_id # file[g].external_id
      /\ remote.drafts = 2 /\ remote.published = {}

\* C13 (as claimed): no process_file run uploads a file that already carries
\* the external_id of a deposition it was uploaded to.
C13_NoReupload ==
    \A f \in FileIds, repository_id \in RepositoryArguments :
      \A o \in ProcessAnswers(f, repository_id) :
        \A r \in {ProcessRun(f, repository_id, o)} :
          \A g \in r.run.uploaded : file[g].external_id = NULL

\* A process_file run for f comes to the call of the adapter: the link
\* resolves, the metadata is read and the file has a session.
ReachesPrepare(f) ==
    /\ file[f].exists
    /\ link_to_local_path(file[f].link).raises = "none"
    /\ extract_metadata(file[f], audio[f], LocalCopy(disk, file, f)).raises = "none"
    /\ file[f].recording_session # NULL

\* The run sent no request to the remote and left the remote as it was.
NoRemoteCall(r) ==
    /\ ~r.run.create_sent /\ ~r.run.put_sent
    /\ ~r.run.delete_sent /\ ~r.run.publish_sent
    /\ r.run.uploaded = {} /\ r.run.upload_failed = {}
    /\ r.remote = remote

\* The repositories for which the adapter has nothing to call for an
\* operation: no handler module, or a handler module without the operation.
Unsupported(operation) ==
    {x \in RepositoryIds :
        \/ ModuleName(RepositoryName(x)) \notin UtilsModules
        \/ operation \notin HandlerOperations(ModuleName(RepositoryName(x)))}

\* C14: an adapter operation (prepare, delete, publish, build payload) invoked
\* for a repository without handler, or whose handler lacks the operation,
\* raises NotImplementedError before any request is sent to the remote; the
\* process_file run in which this happens leaves its file in status "error".
C14_AdapterDispatch ==
    /\ \A f \in FileIds, repository_id \in RepositoryArguments :
         /\ \A r \in {ProcessRun(f, repository_id, AllAccepted)} :
              ( /\ ReachesPrepare(f)
                /\ r.run.repository \in Unsupported("prepare_deposition_for_session") )
              => /\ r.run.raises = "NotImplementedError"
                 /\ NoRemoteCall(r)
                 /\ r.file[f].status = "error"
         /\ \A o \in DeleteAnswers :
              \A r \in {DeleteRun(f, repository_id, o)} :
                ( /\ file[f].exists
                  /\ r.run.repository \in Unsupported("delete_file") )
                => /\ r.run.raises = "NotImplementedError"
                   /\ NoRemoteCall(r)
    /\ \A i \in PublishInputs :
         \A r \in {PublishRun(i)} :
           ( /\ SessionFiles(file, SessionId) # {}
             /\ i.repository_id \in Unsupported("publish_deposition") )
           => /\ r.run.raises = "NotImplementedError"
              /\ NoRemoteCall(r)
    /\ \A x \in Unsupported("build_metadata_payload") :
         build_repository_metadata_payload(x) = "NotImplementedError"

\* A file that was uploaded to a draft is processed, deleted and published
\* for a repository that has a module without handler operations, and a
\* process_file run for a repository without module ends in status "error".
C14_Witness ==
    \E f \in SessionFiles(file, SessionId) :
      /\ ReachesPrepare(f)
      /\ file[f].status = "done"
      /\ <<file[f].external_id, f>> \in remote.files
      /\ \E r \in {ProcessRun(f, BareRepositoryId, AllAccepted)} :
           /\ r.run.raises = "NotImplementedError"
           /\ r.file[f].status = "error"
      /\ \E r \in {ProcessRun(f, OtherRepositoryId, AllAccepted)} :
           /\ r.run.raises = "NotImplementedError"
           /\ r.file[f].status = "error"
      /\ \E i \in PublishInputs :
           /\ i.repository_id = BareRepositoryId
           /\ PublishRun(i).run.raises = "NotImplementedError"
      /\ \E g \in FileIds, o \in DeleteAnswers :
           /\ file[g].exists
           /\ DeleteRun(g, NULL, o).run.repository = OtherRepositoryId
           /\ DeleteRun(g, NULL, o).run.raises = "NotImplementedError"

\* C15: a deletion run for a file that has no record returns without raising,
\* sends no request to the remote and changes nothing.
C15_DeleteMissingIsNoOp ==
    \A f \in FileIds, repository_id \in RepositoryArguments :
      \A o \in DeleteAnswers :
        \A r \in {DeleteRun(f, repository_id, o)} :
          ~file[f].exists
          => /\ r.run.raises = "none"
             /\ NoRemoteCall(r)
             /\ r.file = file

\* A file whose record an earlier deletion run removed together with its
\* remote copy; the deletion is run again for it.
C15_Witness ==
    \E f \in FileIds :
      /\ ~file[f].exists
      /\ remote.drafts > 0
      /\ \A d \in DepositionIds : <<d, f>> \notin remote.files
      /\ \E r \in {DeleteRun(f, ZenodoRepositoryId, [list |-> TRUE, delete |-> TRUE])} :
           r.run.raises = "none" /\ ~r.run.delete_sent

Metadata(rec) == <<rec.sampling_rate, rec.duration, rec.bit_depth, rec.format>>

\* The four fields hold values (none is empty).
Populated(rec) ==
    /\ ~Empty(rec.sampling_rate) /\ ~Empty(rec.duration)
    /\ ~Empty(rec.bit_depth) /\ ~EmptyText(rec.format)

\* C17: extract_metadata changes none of sampling_rate, duration, bit_depth
\* and format on a file on which the four are populated, never changes one
\* of them that is populated, changes no other field, and applied twice to
\* the same file and audio leaves the values it leaves when applied once.
C17_ExtractorIdempotence ==
    \A f \in FileIds :
      \A once \in {extract_metadata(file[f], audio[f], LocalCopy(disk, file, f))} :
        \A twice \in {extract_metadata(once.rec, audio[f], LocalCopy(disk, file, f))} :
          /\ Populated(file[f]) => once.rec = file[f]
          /\ ~Empty(file[f].sampling_rate)
             => once.rec.sampling_rate = file[f].sampling_rate
          /\ ~Empty(file[f].duration) => once.rec.duration = file[f].duration
          /\ ~Empty(file[f].bit_depth) => once.rec.bit_depth = file[f].bit_depth
          /\ ~EmptyText(file[f].format) => once.rec.format = file[f].format
          /\ [once.rec EXCEPT !.sampling_rate = file[f].sampling_rate,
                              !.duration = file[f].duration,
                              !.bit_depth = file[f].bit_depth,
                              !.format = file[f].format] = file[f]
          /\ twice.rec = once.rec
          /\ twice.raises = once.raises

\* A file to which the user gave a sampling rate and a format that differ
\* from those of its audio, whose duration and bit depth the extractor has
\* filled in; the extractor runs again without raising.
C17_Witness ==
    \E f \in FileIds :
      /\ file[f].sampling_rate = 96000 /\ audio[f].samplerate = 44100
      /\ file[f].format = "MP3" /\ FormatOf(audio[f].ext) = "WAV"
      /\ file[f].duration = audio[f].frames \div audio[f].samplerate
      /\ file[f].duration \notin UserDurations
      /\ file[f].bit_depth = bit_depth_map(audio[f].subtype)
      /\ extract_metadata(file[f], audio[f], LocalCopy(disk, file, f)).raises = "none"
      /\ extract_metadata(file[f], audio[f], LocalCopy(disk, file, f)).rec = file[f]

\* The relative paths: those that do not start with "/".
RelativePaths == {p \in SegmentPaths : p[1] # ""}

\* The path lies under the root.
IsUnder(root, path) ==
    Len(path) >= Len(root) /\ SubSeq(path, 1, Len(root)) = root

\* The links with and without scheme and host for the same directory and
\* relative path.
WithHost(link) == link.scheme # "" /\ link.p \in RelativePaths
Bare(link) == [link EXCEPT !.scheme = "", !.pad = FALSE]
RootOf(link) == IF link.lead = "/media/" THEN MEDIA_ROOT ELSE TEMP_ROOT

\* C18 (as claimed): a resolved path is the value of link_to_local_path for
\* the link, and for every relative path p the link http(s)://host/media/p
\* resolves to the path of /media/p, under the media root, and
\* http(s)://host/temp/p to the path of /temp/p, under the temp root.
C18_LinkResolution ==
    \A f \in FileIds :
      /\ task[f].pc = "resolved" => task[f].local_path = ResolveLink(file[f].link)
      /\ (WithHost(file[f].link) /\ file[f].link.lead \in {"/media/", "/temp/"})
         => /\ ResolveLink(file[f].link) = ResolveLink(Bare(file[f].link))
            /\ IsUnder(RootOf(file[f].link), ResolveLink(file[f].link))

\* The relative path holds no "?" and no "#".
NoDelimiter(p) == \A i \in 1..Len(p) : BeforeDelimiter(p[i]) = p[i]

RECURSIVE StaysBelow(_, _)
\* Read from its start, the decoded path never holds more ".." segments than
\* segments to drop.
StaysBelow(p, depth) ==
    IF p = << >> THEN TRUE
    ELSE IF unquote(Head(p)) \in {"", "."} THEN StaysBelow(Tail(p), depth)
    ELSE IF unquote(Head(p)) = ".."
    THEN depth > 0 /\ StaysBelow(Tail(p), depth - 1)
    ELSE StaysBelow(Tail(p), depth + 1)

\* C18 (amended): the same for the relative paths p that hold no "?" and no
\* "#"; the common path lies under the root when p does not climb above its
\* start with ".." segments.
C18_LinkResolutionOfPlainPaths ==
    \A f \in FileIds :
      /\ task[f].pc = "resolved" => task[f].local_path = ResolveLink(file[f].link)
      /\ ( /\ WithHost(file[f].link)
           /\ file[f].link.lead \in {"/media/", "/temp/"}
           /\ NoDelimiter(file[f].link.p) )
         => /\ ResolveLink(file[f].link) = ResolveLink(Bare(file[f].link))
            /\ StaysBelow(file[f].link.p, 0)
               => IsUnder(RootOf(file[f].link), ResolveLink(file[f].link))

\* A link with scheme and host under /temp/, whose path holds an encoded
\* blank and a segment that is dropped again, has been resolved to the path
\* the link without scheme and host resolves to, under the temp root.
C18_Witness ==
    \E f \in FileIds :
      /\ task[f].pc = "resolved"
      /\ file[f].link.scheme = "https://host" /\ file[f].link.lead = "/temp/"
      /\ file[f].link.p = <<".", "a%20b.wav">>
      /\ task[f].local_path = TEMP_ROOT \o <<"a b.wav">>
      /\ task[f].local_path = ResolveLink(Bare(file[f].link))

\* The publish request of the run was sent and brought no DOI back: the
\* remote declined it, or published and returned none.
PublishBroughtNoDoi(r) == r.run.publish_sent /\ r.run.doi = NULL

\* C19: when the publish request is declined or returns no DOI, the publish
\* task ends with a ValueError and no row changes: no file (its doi, link,
\* external_url, repository, is_valid_link), not the session, no entity.
C19_FailedPublishChangesNothing ==
    \A i \in PublishInputs : \A r \in {PublishRun(i)} :
      PublishBroughtNoDoi(r)
      => /\ r.run.raises = "ValueError"
         /\ r.file = file
         /\ r.rs = rs
         /\ r.entity = entity

\* From a state with an unpublished session, the same publish task is run
\* twice: the remote returns no DOI to one run, which raises and changes
\* nothing, and a DOI to the other, which stamps a file and publishes the
\* session.
C19_Witness ==
    \E i \in PublishInputs :
      /\ i.o.publish = "no_doi"
      /\ rs.status # "published"
      /\ \E r \in {PublishRun(i)} :
           /\ PublishBroughtNoDoi(r)
           /\ r.run.published # NULL
           /\ r.run.raises = "ValueError"
           /\ r.file = file /\ r.rs = rs /\ r.entity = entity
      /\ \E ok \in {PublishRun([i EXCEPT !.o.publish = "ok"])} :
           /\ ok.file # file
           /\ ok.rs.status = "published"

\* C20: after a publish task that succeeded, every file of the session with
\* is_valid_link set carries a DOI and the id of the deposition that was
\* published.
C20_ValidLinkMeansPublished ==
    \A i \in PublishInputs : \A r \in {PublishRun(i)} :
      r.run.raises = "none"
      => \A f \in SessionFiles(r.file, SessionId) :
           r.file[f].is_valid_link
           => /\ Truthy(r.file[f].doi)
              /\ r.file[f].external_id = r.run.published

\* C21: the deposition builder uploads no file that carries a DOI, be it a
\* file selected from the session or the triggering file.
C21_NoUploadOfFileWithDoi ==
    \A f \in FileIds, repository_id \in RepositoryArguments :
      \A o \in ProcessAnswers(f, repository_id) :
        \A r \in {ProcessRun(f, repository_id, o)} :
          \A g \in r.run.uploaded : ~Truthy(file[g].doi)

\* C22: status "done" is final: a process_file run for a file of the session
\* (the deposition builder it calls included) leaves every file that was
\* "done" before the run in status "done".
C22_DoneIsTerminal ==
    \A f \in FileIds, repository_id \in RepositoryArguments :
      \A o \in ProcessAnswers(f, repository_id) :
        \A r \in {ProcessRun(f, repository_id, o)} :
          \A g \in SessionFiles(file, SessionId) :
            (file[g].status = "done" /\ r.file[g].exists)
            => r.file[g].status = "done"

\* The run failed at a request for the whole session: the creation of the
\* draft or the metadata PUT was refused.
SessionLevelFailure(r) ==
    /\ r.run.raises = "HTTPError"
    /\ r.run.create_sent \/ r.run.put_sent

\* The run for the same file that follows, every request accepted.
Retry(r, f, repository_id) ==
    process_file(r.file, r.disk, audio, r.remote, f, repository_id, AllAccepted)

\* The remote refused nothing in the run.
RemoteAnswered(r) == r.run.raises # "HTTPError" /\ r.run.upload_failed = {}

\* C23: a process_file run that failed at the creation of the draft or at
\* the metadata PUT, run again for the same file with a remote that accepts
\* every request, ends with the file "done" and works on the deposition id
\* the file carries, if any, without creating a draft.
C23_RecoveryByRetry ==
    \A f \in FileIds, repository_id \in RepositoryArguments :
      \A o \in ProcessAnswers(f, repository_id) :
        \A r \in {ProcessRun(f, repository_id, o)} :
          SessionLevelFailure(r)
          => \A again \in {Retry(r, f, repository_id)} :
               RemoteAnswered(again)
               => /\ again.file[f].status = "done"
                  /\ r.file[f].external_id # NULL
                     => /\ ~again.run.create_sent
                        /\ again.run.deposition = r.file[f].external_id

\* C24: a builder call that got past its upload loop has removed the local
\* copy of every file of its list that lies under the temp root, uploaded or
\* not, and has removed no local copy outside the temp root.
C24_TempCleanup ==
    \A f \in FileIds, repository_id \in RepositoryArguments :
      \A o \in ProcessAnswers(f, repository_id) :
        \A r \in {ProcessRun(f, repository_id, o)} :
          r.run.put_sent
          => \A g \in FileIds :
               /\ (g \in Range(r.run.files)
                   /\ link_to_local_path(file[g].link).root = "temp")
                  => r.disk[g] = "missing"
               /\ link_to_local_path(file[g].link).root # "temp"
                  => r.disk[g] = disk[g]

\* The references C25 names: those of the software that has a version among
\* the session's acquisition software, those of the session's hardware, and
\* the session's own.
CascadeReferences(session) ==
    UNION {SoftwareReferences(SoftwareOf(v)) :
             v \in session.equipment_acquisition_software}
    \cup HardwareReferenceSet(session)
    \cup session.references

\* C25: after a publish run that published the deposition, every reference
\* of the session's acquisition software, of its hardware and of the session
\* itself is validated, and the run validated no other reference.
C25_ReferenceCascade ==
    \A i \in PublishInputs : \A r \in {PublishRun(i)} :
      r.run.doi # NULL
      => \A ref \in References :
           /\ ref \in CascadeReferences(rs) => r.entity[ref] = "validated"
           /\ ref \notin CascadeReferences(rs) => r.entity[ref] = entity[ref]

\* The fields of a row that a write changed.
ChangedFields(before, after) ==
    {k \in DOMAIN before : before[k] # after[k]}

\* The field groups C26 names, and those the pipeline writes besides: the
\* metadata extract_metadata fills, and is_valid_link.
ClaimedGroups ==
    {{"status"}, {"repository", "external_id"},
     {"doi", "link", "external_url"}, {"repository"}}
WrittenGroups ==
    ClaimedGroups
    \cup {{"sampling_rate", "duration", "bit_depth", "format"},
          {"is_valid_link"}}

\* The writes to the row of file f that the tasks can make in this state, as
\* pairs of the row before and after: the status writes and the metadata
\* write of a starting process_file run, the turn of an upload loop that has
\* reached f, the final status write of the run for f from the copy it
\* holds, the stamping by a publish, and the is_valid_link update.
StatusWrites(f) ==
    IF task[f].pc = "idle" /\ file[f].exists
    THEN {<<file[f], SaveStatus(file, f, file[f], "processing")[f]>>}
    ELSE IF task[f].pc = "finish"
    THEN {<<file[f], SaveStatus(file, f, task[f].row,
                                FinalStatus(task[f].raises))[f]>>}
    ELSE {}
MetadataWrites(f) ==
    IF task[f].pc = "idle" /\ file[f].exists
    THEN {<<file[f], extract_metadata(file[f], audio[f],
                                      LocalCopy(disk, file, f)).rec>>}
    ELSE {}
UploadWrites(f) ==
    {<<file[f],
       Saved(file,
             UploadFile(BuilderResult(RowsRead(task[g]), disk, remote), disk, f,
                        task[g].deposition_id, task[g].repo,
                        [upload_fail |-> IF refused THEN {f} ELSE {}]),
             f)[f]>> :
       g \in {h \in FileIds : /\ task[h].pc = "upload"
                               /\ task[h].i <= Len(task[h].files)
                               /\ task[h].files[task[h].i] = f},
       refused \in BOOLEAN}
PublishWrites(f) ==
    {<<file[f],
       publish_deposition(file, remote, SessionId, FALSE,
                          [put |-> TRUE, publish |-> "ok"]).file[f]>>,
     <<file[f], MarkValidLinks(file, SessionId)[f]>>}
FileWrites(f) ==
    StatusWrites(f) \cup MetadataWrites(f) \cup UploadWrites(f)
    \cup PublishWrites(f)

\* C26 (as claimed): every write to a File row changes fields of one of the
\* four groups status, repository with external_id, doi with link with
\* external_url, repository alone; so the final status write of a
\* process_file run leaves the external_id and the doi another task saved.
C26_SelectiveFieldWrites ==
    \A f \in FileIds : \A w \in FileWrites(f) :
      \E group \in ClaimedGroups : ChangedFields(w[1], w[2]) \subseteq group

\* C26 (amended): the same with the two further groups the pipeline writes,
\* the metadata fields extract_metadata filled and is_valid_link.
C26_SelectiveWritesOfSixGroups ==
    \A f \in FileIds :
      /\ \A w \in FileWrites(f) :
           \E group \in WrittenGroups : ChangedFields(w[1], w[2]) \subseteq group
      /\ \A w \in StatusWrites(f) :
           /\ w[2].external_id = file[f].external_id
           /\ w[2].doi = file[f].doi

\* The run for a file holds a copy without DOI while a publish has stamped
\* the row; the run has failed and is about to save its final status, and
\* that write leaves the DOI and the external_id of the row.
C26_Witness ==
    \E f \in FileIds :
      /\ task[f].pc = "finish"
      /\ task[f].row.doi = NULL
      /\ file[f].external_id # NULL
      /\ file[f].doi = ZenodoDoi(file[f].external_id)
      /\ \A w \in StatusWrites(f) :
           /\ w[2].status = "error"
           /\ w[2].doi = file[f].doi
           /\ w[2].external_id = file[f].external_id

\* C27: when the deposition builder returns a deposition id, a file of the
\* session carries that id as external_id, with a repository.
C27_ReturnedDepositionIsTagged ==
    \A f \in FileIds, repository_id \in RepositoryArguments :
      \A o \in ProcessAnswers(f, repository_id) :
        \A r \in {ProcessRun(f, repository_id, o)} :
          r.run.deposition_id # NULL
          => \E g \in SessionFiles(r.file, SessionId) :
               /\ r.file[g].external_id = r.run.deposition_id
               /\ r.file[g].repository # NULL

\* File a was stamped by an earlier publish of its deposition, and file b
\* carries no DOI and the id of another deposition, still a draft.
StampedAndNewer(a, b) ==
    /\ {a, b} \subseteq SessionFiles(file, SessionId)
    /\ file[a].external_id # NULL
    /\ file[a].external_id \in remote.published
    /\ file[a].doi = ZenodoDoi(file[a].external_id)
    /\ ~Truthy(file[b].doi)
    /\ file[b].external_id \notin {NULL, file[a].external_id}
    /\ IsDraft(remote, file[b].external_id)

\* C28: in a session with a file stamped by an earlier publish and a file
\* without DOI tagged with a newer draft, a publish the remote accepts
\* publishes the newer draft and gives the file without DOI its DOI.
C28_PublishTargetsNewerDraft ==
    \A a, b \in FileIds :
      StampedAndNewer(a, b)
      => \A i \in PublishInputs :
           (i.repository_id = ZenodoRepositoryId /\ i.o.put
            /\ i.o.publish = "ok")
           => \A r \in {PublishRun(i)} :
                /\ r.run.published = file[b].external_id
                /\ Truthy(r.file[b].doi)

\* C29: a publish run that fails after the remote returned a DOI does not
\* leave the session published while an entity or reference of the session
\* is not validated or a file in status "done" has no is_valid_link.
C29_PublishAllOrNothing ==
    \A i \in PublishInputs : \A r \in {PublishRun(i)} :
      (r.run.doi # NULL /\ r.run.raises # "none")
      => ~ /\ r.rs.status = "published"
           /\ \/ \E e \in EntitiesOfSession(rs) \cup CascadeReferences(rs) :
                   r.entity[e] # "validated"
              \/ \E f \in SessionFiles(r.file, SessionId) :
                   r.file[f].status = "done" /\ ~r.file[f].is_valid_link

\* C30: when the handler's delete_file raises in a delete task (the remote
\* refuses, or the file has no external_id), the File row still exists and
\* has the status it had before the task.
C30_FailedDeleteLeavesState ==
    \A f \in FileIds, repository_id \in RepositoryArguments :
      \A o \in DeleteAnswers : \A r \in {DeleteRun(f, repository_id, o)} :
        ( /\ r.run.entered
          /\ Dispatch(r.run.repository, "delete_file") = "none"
          /\ r.run.raises # "none" )
        => /\ r.file[f].exists
           /\ r.file[f].status = file[f].status

====
